---- MODULE Spec2Model ----
(***************************************************************************)
(* Model of courses.py: find_courses, assert_valid_input,                  *)
(* compute_time_between, haversine and get_header.                         *)
(*                                                                         *)
(* A Python value is a record [t, i, s, items]: t is the Python type,      *)
(* i the number of an int/float, s the text of a str, items the elements   *)
(* of a list/tuple.  A criteria mapping (a dict, which keeps insertion     *)
(* order) is a sequence of [k, v] items with distinct keys.  Query text    *)
(* is a sequence of tokens; the token "?" is a placeholder.  A column      *)
(* name is a sequence of segments in which "." is the qualifier separator. *)
(***************************************************************************)
EXTENDS Integers, Sequences, FiniteSets, TLC

VARIABLES args_from_ui, pc, functions, select, frm, where, args, ops,
          outcome, description, header, rows

vars == <<args_from_ui, pc, functions, select, frm, where, args, ops,
          outcome, description, header, rows>>

\* ---------------------------------------------------------------- bounds
MaxKeys == 3
MaxCols == 2
MaxNameLen == 3

\* ---------------------------------------------------------------- values
IntV(n) == [t |-> "int", i |-> n, s |-> "", items |-> <<>>]
FloatV(n) == [t |-> "float", i |-> n, s |-> "", items |-> <<>>]
StrV(x) == [t |-> "str", i |-> 0, s |-> x, items |-> <<>>]
ListV(xs) == [t |-> "list", i |-> 0, s |-> "", items |-> xs]
TupleV(xs) == [t |-> "tuple", i |-> 0, s |-> "", items |-> xs]

IsSeqV(v) == v.t \in {"list", "tuple"}

\* Python truthiness of a value (assert terms).
Truthy(v) ==
  CASE v.t \in {"int", "float"} -> v.i # 0
    [] v.t = "str" -> v.s # ""
    [] OTHER -> v.items # <<>>

Range(f) == {f[x] : x \in DOMAIN f}

\* ----------------------------------------------------------------- store
\* The tables the connection reads.  Coordinates are in thousandths of a
\* degree relative to a reference point; all buildings lie on one meridian.
courses ==
  { [course_id |-> 1, dept |-> "CMSC", course_num |-> 12200, title |-> "Computer Science"],
    [course_id |-> 2, dept |-> "MATH", course_num |-> 15100, title |-> "Calculus"],
    [course_id |-> 3, dept |-> "CMSC", course_num |-> 23300, title |-> "Networks"] }

sections ==
  { [course_id |-> 1, section_num |-> 1, enrollment |-> 15, building_code |-> "RY", meeting_pattern_id |-> 1],
    [course_id |-> 1, section_num |-> 2, enrollment |-> 30, building_code |-> "HM", meeting_pattern_id |-> 2],
    [course_id |-> 2, section_num |-> 1, enrollment |-> 10, building_code |-> "KPTC", meeting_pattern_id |-> 1],
    [course_id |-> 3, section_num |-> 1, enrollment |-> 25, building_code |-> "RY", meeting_pattern_id |-> 3] }

meeting_patterns ==
  { [meeting_pattern_id |-> 1, day |-> "MWF", time_start |-> 900, time_end |-> 950],
    [meeting_pattern_id |-> 2, day |-> "TR", time_start |-> 1030, time_end |-> 1150],
    [meeting_pattern_id |-> 3, day |-> "MWF", time_start |-> 1330, time_end |-> 1420] }

gps ==
  { [building_code |-> "RY", lon |-> 0, lat |-> 0],
    [building_code |-> "HM", lon |-> 0, lat |-> 3],
    [building_code |-> "KPTC", lon |-> 0, lat |-> 8] }

catalog_index ==
  { [word |-> "quantum", course_id |-> 1],
    [word |-> "plato", course_id |-> 1],
    [word |-> "quantum", course_id |-> 2],
    [word |-> "plato", course_id |-> 3] }

\* ------------------------------------------------------- criteria inputs
acceptable_keys ==
  {"time_start", "time_end", "enrollment", "dept", "terms", "day",
   "building_code", "walking_time"}

\* Values a caller may hand over for each key, well-formed or not.
KeyValues(k) ==
  CASE k = "time_start" -> {IntV(1000), IntV(-1)}
    [] k = "time_end" -> {IntV(1200), IntV(2400)}
    [] k = "enrollment" ->
         {ListV(<<IntV(10), IntV(20)>>), TupleV(<<IntV(10), IntV(20)>>),
          ListV(<<IntV(20), IntV(10)>>)}
    [] k = "dept" -> {StrV("CMSC"), IntV(5)}
    [] k = "terms" ->
         {ListV(<<StrV("quantum")>>), ListV(<<StrV("quantum"), StrV("plato")>>),
          ListV(<<StrV("quantum"), StrV("quantum")>>),
          TupleV(<<StrV("quantum"), StrV("plato")>>), ListV(<<>>)}
    [] k = "day" ->
         {ListV(<<StrV("MWF")>>), ListV(<<StrV("MWF"), StrV("TR")>>),
          ListV(<<>>), TupleV(<<StrV("TR")>>)}
    [] k = "building_code" -> {StrV("RY"), StrV("XX")}
    [] k = "walking_time" -> {IntV(10), IntV(5)}
    [] OTHER -> {IntV(1)}

UiKeys == acceptable_keys \cup {"section_num"}

UiItems == UNION {{[k |-> k, v |-> v] : v \in KeyValues(k)} : k \in UiKeys}

\* The dicts of at most MaxKeys items.
Criteria ==
  UNION {{d \in [1..n -> UiItems] :
            \A a, b \in 1..n : a # b => d[a].k # d[b].k} : n \in 0..MaxKeys}

Keys(d) == {d[j].k : j \in DOMAIN d}

\* d.get(k, default)
Get(d, k, default) ==
  IF k \in Keys(d) THEN (CHOOSE it \in Range(d) : it.k = k).v ELSE default

\* ------------------------------------------------------------- validator
\* Line 142: every key is an acceptable key.
KeysAcceptable(d) == Keys(d) \subseteq acceptable_keys

BuildingPairIgnored(d) == TRUE

\* Lines 145-150: building_code and walking_time come together or not at all.
BuildingPair(d) ==
  LET has_building == "building_code" \in Keys(d) /\ "walking_time" \in Keys(d)
      does_not_have_building ==
        "building_code" \notin Keys(d) /\ "walking_time" \notin Keys(d)
  IN has_building \/ does_not_have_building

\* Lines 152-159: building_code, walking_time, day and dept.
ScalarsAndDay(d) ==
  /\ Get(d, "building_code", StrV("")).t = "str"
  /\ Get(d, "walking_time", IntV(0)).t = "int"
  /\ IsSeqV(Get(d, "day", ListV(<<>>)))
  /\ \A x \in Range(Get(d, "day", ListV(<<>>)).items) : x.t = "str"
  /\ Get(d, "dept", StrV("")).t = "str"

\* Lines 162-165: terms is a non-empty list of strings, if it exists.
TermsValid(d) ==
  LET terms == Get(d, "terms", ListV(<<StrV("")>>))
  IN /\ Truthy(terms)
     /\ IsSeqV(terms)
     /\ \A x \in Range(terms.items) : x.t = "str"

\* Lines 167-171: time_start and time_end.
TimesValid(d) ==
  /\ Get(d, "time_start", IntV(0)).t = "int"
  /\ Get(d, "time_start", IntV(0)).i >= 0
  /\ Get(d, "time_end", IntV(0)).t = "int"
  /\ Get(d, "time_end", IntV(0)).i < 2400

EnrollmentOrderIgnored(d) ==
  LET enrollment_val == Get(d, "enrollment", ListV(<<IntV(0), IntV(0)>>))
  IN /\ IsSeqV(enrollment_val)
     /\ Len(enrollment_val.items) = 2
     /\ \A x \in Range(enrollment_val.items) : x.t = "int"

\* Lines 174-178: enrollment is a pair of integers, if it exists.
EnrollmentValid(d) ==
  LET enrollment_val == Get(d, "enrollment", ListV(<<IntV(0), IntV(0)>>))
  IN /\ IsSeqV(enrollment_val)
     /\ Len(enrollment_val.items) = 2
     /\ \A x \in Range(enrollment_val.items) : x.t = "int"
     /\ enrollment_val.items[1].i <= enrollment_val.items[2].i

\* assert_valid_input: TRUE iff no assertion fails.
assert_valid_input(d) ==
  /\ KeysAcceptable(d)
  /\ BuildingPair(d)
  /\ ScalarsAndDay(d)
  /\ TermsValid(d)
  /\ TimesValid(d)
  /\ EnrollmentValid(d)

\* ---------------------------------------------------------- geodistance
\* haversine on one meridian (lon1 = lon2): a = sin(dlat/2)^2 and
\* c = 2*asin(sqrt(a)) = |dlat| in radians, so m = 6367 * |dlat| * 1000.
\* With coordinates in thousandths of a degree and pi = 355/113 the result
\* in metres is the fraction num/den.
haversine(lon1, lat1, lon2, lat2) ==
  LET dlat == IF lat2 >= lat1 THEN lat2 - lat1 ELSE lat1 - lat2
  IN CASE lon2 - lon1 = 0 -> [num |-> 6367 * 355 * dlat, den |-> 180 * 113]

CeilDiv(a, b) == IF a % b = 0 THEN a \div b ELSE (a \div b) + 1

\* mins = meters / (1.1 * 60), rounded up.
compute_time_between(lon1, lat1, lon2, lat2) ==
  LET meters == haversine(lon1, lat1, lon2, lat2)
  IN CeilDiv(meters.num * 10, meters.den * 11 * 60)

\* ------------------------------------------------------------ query text
select_base == <<"SELECT DISTINCT", "courses.dept", "courses.course_num", "courses.title">>

add_select1 ==
  <<"sections.section_num", "meeting_patterns.day", "meeting_patterns.time_start",
    "meeting_patterns.time_end", "sections.enrollment">>

add_select2 ==
  <<"sections.building_code", "time_between(gps.lon, gps.lat,", "?", "?", ") AS walking_time">>

frm_base == <<"FROM courses">>

add_joins == <<"JOIN sections", "JOIN meeting_patterns", "JOIN gps">>

where_base == <<"WHERE 1 = 1">>

Placeholders(n) == [j \in 1..n |-> "?"]

\* where_terms.format(', '.join(['?'] * n))
where_terms(n) ==
  <<"AND", "courses.course_id", "IN (SELECT course_id FROM catalog_index WHERE word IN (">>
  \o Placeholders(n)
  \o <<") GROUP BY course_id HAVING count(*) =", "?", ")">>

WhereDictTimeStartLe(d, k) ==
  CASE k = "time_start" -> <<"AND", "meeting_patterns.time_start", "<=", "?">>
    [] k = "time_end" -> <<"AND", "meeting_patterns.time_end", "<=", "?">>
    [] k = "day" ->
         <<"AND", "meeting_patterns.day", "IN (">>
         \o Placeholders(Len(Get(d, "day", ListV(<<>>)).items)) \o <<")">>
    [] k = "dept" -> <<"AND", "courses.dept", "=", "?">>
    [] k = "enrollment" -> <<"AND", "sections.enrollment", "BETWEEN", "?", "AND", "?">>
    [] k = "terms" -> where_terms(Len(Get(d, "terms", ListV(<<>>)).items))
    [] k = "walking_time" -> <<"AND", "walking_time", "<=", "?">>

\* where_dict[k] for the criteria d; a key outside the dict has no entry.
where_dict(d, k) ==
  CASE k = "time_start" -> <<"AND", "meeting_patterns.time_start", ">=", "?">>
    [] k = "time_end" -> <<"AND", "meeting_patterns.time_end", "<=", "?">>
    [] k = "day" ->
         <<"AND", "meeting_patterns.day", "IN (">>
         \o Placeholders(Len(Get(d, "day", ListV(<<>>)).items)) \o <<")">>
    [] k = "dept" -> <<"AND", "courses.dept", "=", "?">>
    [] k = "enrollment" -> <<"AND", "sections.enrollment", "BETWEEN", "?", "AND", "?">>
    [] k = "terms" -> where_terms(Len(Get(d, "terms", ListV(<<>>)).items))
    [] k = "walking_time" -> <<"AND", "walking_time", "<=", "?">>

input_vars ==
  {"enrollment", "time_start", "time_end", "day", "section_num", "walking_time",
   "building_code"}

\* The parameters one item adds (lines 117-122): the elements of a list,
\* followed by its length for terms; any other value as one parameter.
ItemArgs(k, v) ==
  IF v.t = "list"
  THEN v.items \o (IF k = "terms" THEN <<IntV(Len(v.items))>> ELSE <<>>)
  ELSE <<v>>

\* The loop of lines 114-122 over the items j..Len(d): the fragments added
\* to where and the parameters added to args.
RECURSIVE LoopWhere(_, _), LoopArgs(_, _)
LoopWhere(d, j) ==
  IF j > Len(d) THEN <<>>
  ELSE (IF d[j].k # "building_code" THEN where_dict(d, d[j].k) ELSE <<>>)
       \o LoopWhere(d, j + 1)

LoopArgs(d, j) ==
  IF j > Len(d) THEN <<>>
  ELSE (IF d[j].k # "building_code" THEN ItemArgs(d[j].k, d[j].v) ELSE <<>>)
       \o LoopArgs(d, j + 1)

\* Number of placeholder tokens in a piece of query text.
CountPlaceholders(text) == Cardinality({p \in DOMAIN text : text[p] = "?"})

\* ------------------------------------------------------- query execution
\* What c.execute(query, args) does with the text find_courses composes.

NoSection ==
  [course_id |-> 0, section_num |-> 0, enrollment |-> 0, building_code |-> "",
   meeting_pattern_id |-> 0]
NoMeetingPattern == [meeting_pattern_id |-> 0, day |-> "", time_start |-> 0, time_end |-> 0]
NoBuilding == [building_code |-> "", lon |-> 0, lat |-> 0]

\* The rows of the from clause: courses, joined with the tables it names.
FromRows(from) ==
  LET js == "JOIN sections" \in Range(from)
      jm == "JOIN meeting_patterns" \in Range(from)
      jg == "JOIN gps" \in Range(from)
  IN {r \in [c : courses,
             s : IF js THEN sections ELSE {NoSection},
             m : IF jm THEN meeting_patterns ELSE {NoMeetingPattern},
             g : IF jg THEN gps ELSE {NoBuilding}] :
        /\ js => r.c.course_id = r.s.course_id
        /\ jm => r.s.meeting_pattern_id = r.m.meeting_pattern_id
        /\ jg => r.g.building_code = r.s.building_code}

FromTables(from) ==
  {"courses"}
  \cup (IF "JOIN sections" \in Range(from) THEN {"sections"} ELSE {})
  \cup (IF "JOIN meeting_patterns" \in Range(from) THEN {"meeting_patterns"} ELSE {})
  \cup (IF "JOIN gps" \in Range(from) THEN {"gps"} ELSE {})

GeoColumn == "time_between(gps.lon, gps.lat,"

\* The select list: the tokens that start a result column.
SelectColumns(sel) ==
  SelectSeq(sel, LAMBDA tok : tok \notin {"SELECT DISTINCT", "?", ") AS walking_time"})

\* The tables a column expression reads.
ColumnTables(col) ==
  CASE col \in {"courses.dept", "courses.course_num", "courses.title", "courses.course_id"} ->
         {"courses"}
    [] col \in {"sections.section_num", "sections.enrollment", "sections.building_code"} ->
         {"sections"}
    [] col \in {"meeting_patterns.day", "meeting_patterns.time_start",
                "meeting_patterns.time_end"} -> {"meeting_patterns"}
    [] col = GeoColumn -> {"gps"}
    [] OTHER -> {}

\* The name the cursor reports for a result column: the alias if there is
\* one, else the column with or without its table (the store's setting).
ColumnName(col, full) ==
  LET q(tbl, c) == IF full THEN <<tbl, ".", c>> ELSE <<c>>
  IN CASE col = "courses.dept" -> q("courses", "dept")
       [] col = "courses.course_num" -> q("courses", "course_num")
       [] col = "courses.title" -> q("courses", "title")
       [] col = "sections.section_num" -> q("sections", "section_num")
       [] col = "meeting_patterns.day" -> q("meeting_patterns", "day")
       [] col = "meeting_patterns.time_start" -> q("meeting_patterns", "time_start")
       [] col = "meeting_patterns.time_end" -> q("meeting_patterns", "time_end")
       [] col = "sections.enrollment" -> q("sections", "enrollment")
       [] col = "sections.building_code" -> q("sections", "building_code")
       [] col = GeoColumn -> <<"walking_time">>

\* Index of the first placeholder after position p of the text.
PlaceholderAt(text, p) == CountPlaceholders(SubSeq(text, 1, p)) + 1

\* Value of a column expression on a row of the from clause.  sel and
\* params give the geodistance column its two bound coordinates.
ColumnValue(col, r, sel, params) ==
  CASE col = "courses.dept" -> StrV(r.c.dept)
    [] col = "courses.course_num" -> IntV(r.c.course_num)
    [] col = "courses.title" -> StrV(r.c.title)
    [] col = "courses.course_id" -> IntV(r.c.course_id)
    [] col = "sections.section_num" -> IntV(r.s.section_num)
    [] col = "sections.enrollment" -> IntV(r.s.enrollment)
    [] col = "sections.building_code" -> StrV(r.s.building_code)
    [] col = "meeting_patterns.day" -> StrV(r.m.day)
    [] col = "meeting_patterns.time_start" -> IntV(r.m.time_start)
    [] col = "meeting_patterns.time_end" -> IntV(r.m.time_end)
    [] col \in {GeoColumn, "walking_time"} ->
         LET p == CHOOSE p \in DOMAIN sel : sel[p] = GeoColumn
             n == PlaceholderAt(sel, p)
         IN IntV(compute_time_between(r.g.lon, r.g.lat, params[n].i, params[n + 1].i))

\* Comparison of two stored values: numbers sort before text, text sorts
\* by bytes.
Collation ==
  <<"", "CMSC", "Calculus", "Computer Science", "HM", "KPTC", "MATH", "MWF",
    "Networks", "RY", "TR", "XX", "plato", "quantum">>
IsNumber(v) == v.t \in {"int", "float"}
TextRank(x) == CHOOSE p \in DOMAIN Collation : Collation[p] = x
SqlEq(a, b) ==
  IF IsNumber(a) /\ IsNumber(b) THEN a.i = b.i
  ELSE IF IsNumber(a) \/ IsNumber(b) THEN FALSE
  ELSE a.s = b.s
SqlLe(a, b) ==
  IF IsNumber(a) /\ IsNumber(b) THEN a.i <= b.i
  ELSE IF IsNumber(a) THEN TRUE
  ELSE IF IsNumber(b) THEN FALSE
  ELSE TextRank(a.s) <= TextRank(b.s)

TermsSubquery == "IN (SELECT course_id FROM catalog_index WHERE word IN ("

\* The predicates of a where clause, each with the indexes of the
\* placeholders it holds; n is the index of the next placeholder.
RECURSIVE ParseWhere(_, _)
ParseWhere(toks, n) ==
  IF toks = <<>> THEN <<>>
  ELSE IF toks[1] # "AND" THEN ParseWhere(Tail(toks), n)
  ELSE
    LET col == toks[2]
        op == toks[3]
        rest == SubSeq(toks, 4, Len(toks))
        \* number of placeholders at the start of the text
        lead == CHOOSE q \in 0..Len(rest) :
                  /\ \A p \in 1..q : rest[p] = "?"
                  /\ q < Len(rest) => rest[q + 1] # "?"
    IN CASE op \in {">=", "<=", "="} ->
              <<[col |-> col, op |-> op, ps |-> <<n>>]>>
              \o ParseWhere(SubSeq(rest, 2, Len(rest)), n + 1)
         [] op = "BETWEEN" ->
              <<[col |-> col, op |-> op, ps |-> <<n, n + 1>>]>>
              \o ParseWhere(SubSeq(rest, 4, Len(rest)), n + 2)
         [] op = "IN (" ->
              <<[col |-> col, op |-> op, ps |-> [j \in 1..lead |-> n + j - 1]]>>
              \o ParseWhere(SubSeq(rest, lead + 2, Len(rest)), n + lead)
         [] op = TermsSubquery ->
              <<[col |-> col, op |-> op, ps |-> [j \in 1..(lead + 1) |-> n + j - 1]]>>
              \o ParseWhere(SubSeq(rest, lead + 4, Len(rest)), n + lead + 1)

\* Whether row r satisfies predicate pr under the bound parameters.
Satisfies(r, pr, sel, params) ==
  LET v == ColumnValue(pr.col, r, sel, params)
      P(j) == params[pr.ps[j]]
  IN CASE pr.op = ">=" -> SqlLe(P(1), v)
       [] pr.op = "<=" -> SqlLe(v, P(1))
       [] pr.op = "=" -> SqlEq(v, P(1))
       [] pr.op = "BETWEEN" -> SqlLe(P(1), v) /\ SqlLe(v, P(2))
       [] pr.op = "IN (" -> \E j \in DOMAIN pr.ps : SqlEq(v, P(j))
       [] pr.op = TermsSubquery ->
            LET k == Len(pr.ps) - 1
                hits == {e \in catalog_index :
                           /\ e.course_id = v.i
                           /\ \E j \in 1..k : SqlEq(StrV(e.word), P(j))}
            IN hits # {} /\ SqlEq(IntV(Cardinality(hits)), P(k + 1))

\* The columns a query reads, the select aliases it may refer to.
UnknownColumn(sel, from, wh) ==
  LET preds == ParseWhere(wh, 1)
      cols == Range(SelectColumns(sel)) \cup {preds[j].col : j \in DOMAIN preds}
  IN \E col \in cols :
       \/ col = "walking_time" /\ GeoColumn \notin Range(sel)
       \/ col # "walking_time" /\ ~(ColumnTables(col) \subseteq FromTables(from))

\* The error c.execute raises, "none" if it runs the query.
ExecuteError(sel, from, wh, params, fns) ==
  LET text == sel \o from \o wh
  IN IF UnknownColumn(sel, from, wh) THEN "OperationalError"
     ELSE IF GeoColumn \in Range(sel)
             /\ [name |-> "time_between", narg |-> 4] \notin fns THEN "OperationalError"
     ELSE IF Len(params) # CountPlaceholders(text) THEN "ProgrammingError"
     ELSE IF \E j \in DOMAIN params : params[j].t \notin {"int", "float", "str"}
          THEN "InterfaceError"
     ELSE IF GeoColumn \in Range(sel)
             /\ \E j \in 1..CountPlaceholders(sel) : ~IsNumber(params[j])
          THEN "OperationalError"
     ELSE "none"

\* The distinct result rows, each a tuple in select-list order.
ResultRows(sel, from, wh, params) ==
  LET cols == SelectColumns(sel)
      preds == ParseWhere(wh, CountPlaceholders(sel \o from) + 1)
  IN {[j \in DOMAIN cols |-> ColumnValue(cols[j], r, sel, params)] :
        r \in {r \in FromRows(from) :
                 \A j \in DOMAIN preds : Satisfies(r, preds[j], sel, params)}}

\* cursor.description: the column names, in select-list order.
Description(sel, full) ==
  LET cols == SelectColumns(sel)
  IN [j \in DOMAIN cols |-> ColumnName(cols[j], full)]

\* ------------------------------------------------------------ get_header
\* s.find("."): the first index of the separator, 0 if there is none.
Find(s) ==
  IF "." \in Range(s) THEN CHOOSE p \in DOMAIN s : s[p] = "." /\ \A q \in 1..(p - 1) : s[q] # "."
  ELSE 0

get_header(descr) ==
  [j \in DOMAIN descr |->
     IF "." \in Range(descr[j])
     THEN SubSeq(descr[j], Find(descr[j]) + 1, Len(descr[j]))
     ELSE descr[j]]

\* ---------------------------------------------------------- find_courses
Init ==
  /\ args_from_ui \in Criteria
  /\ pc = "create_function"
  /\ functions = {}
  /\ select = <<>>
  /\ frm = <<>>
  /\ where = <<>>
  /\ args = <<>>
  /\ ops = <<>>
  /\ outcome = "running"
  /\ description = <<>>
  /\ header = <<>>
  /\ rows = {}

CreateFunctionThreeArgs ==
  /\ pc = "create_function"
  /\ functions' = functions \cup {[name |-> "time_between", narg |-> 3]}
  /\ ops' = Append(ops, "create_function")
  /\ pc' = "check_empty"
  /\ UNCHANGED <<args_from_ui, select, frm, where, args, outcome, description, header, rows>>

\* Line 40: conn.create_function("time_between", 4, compute_time_between).
CreateFunction ==
  /\ pc = "create_function"
  /\ functions' = functions \cup {[name |-> "time_between", narg |-> 4]}
  /\ ops' = Append(ops, "create_function")
  /\ pc' = "check_empty"
  /\ UNCHANGED <<args_from_ui, select, frm, where, args, outcome, description, header, rows>>

FallThroughEmpty ==
  /\ pc = "check_empty"
  /\ Len(args_from_ui) = 0
  /\ ops' = Append(ops, "assert_valid_input")
  /\ select' = select_base
  /\ frm' = frm_base
  /\ where' = where_base
  /\ args' = <<>>
  /\ pc' = "joins"
  /\ UNCHANGED <<args_from_ui, functions, outcome, description, header, rows>>

\* Lines 42-43: the empty dictionary returns ([], []).
ReturnEmpty ==
  /\ pc = "check_empty"
  /\ Len(args_from_ui) = 0
  /\ header' = <<>>
  /\ rows' = {}
  /\ outcome' = "returned"
  /\ ops' = Append(ops, "return")
  /\ pc' = "done"
  /\ UNCHANGED <<args_from_ui, functions, select, frm, where, args, description>>

\* Line 46, an assertion fails.
ValidationFails ==
  /\ pc = "check_empty"
  /\ Len(args_from_ui) # 0
  /\ ~assert_valid_input(args_from_ui)
  /\ ops' = Append(ops, "assert_valid_input")
  /\ outcome' = "AssertionError"
  /\ pc' = "raised"
  /\ UNCHANGED <<args_from_ui, functions, select, frm, where, args, description, header, rows>>

\* Lines 46-102: validation passes; the query text starts as the base text
\* and the parameter list empty.
ValidationPasses ==
  /\ pc = "check_empty"
  /\ Len(args_from_ui) # 0
  /\ assert_valid_input(args_from_ui)
  /\ ops' = Append(ops, "assert_valid_input")
  /\ select' = select_base
  /\ frm' = frm_base
  /\ where' = where_base
  /\ args' = <<>>
  /\ pc' = "joins"
  /\ UNCHANGED <<args_from_ui, functions, outcome, description, header, rows>>

\* Lines 104-107: the section columns and the joins.
JoinDecision ==
  /\ pc = "joins"
  /\ IF Keys(args_from_ui) \cap input_vars # {}
     THEN /\ select' = select \o add_select1
          /\ frm' = frm \o add_joins
          /\ pc' = IF "building_code" \in Keys(args_from_ui) THEN "lookup" ELSE "predicates"
     ELSE /\ UNCHANGED <<select, frm>>
          /\ pc' = "predicates"
  /\ UNCHANGED <<args_from_ui, functions, where, args, ops, outcome, description, header, rows>>

\* "select lon, lat from gps where building_code = ?"
LookupRows(code) == {g \in gps : SqlEq(StrV(g.building_code), code)}

\* Lines 108-111: the building is found; its coordinates are bound first.
LookupFound ==
  /\ pc = "lookup"
  /\ \E lonlat \in LookupRows(Get(args_from_ui, "building_code", StrV(""))) :
       /\ args' = args \o <<FloatV(lonlat.lon), FloatV(lonlat.lat)>>
       /\ select' = select \o add_select2
  /\ ops' = Append(ops, "execute_lookup")
  /\ pc' = "predicates"
  /\ UNCHANGED <<args_from_ui, functions, frm, where, outcome, description, header, rows>>

\* Lines 108-109: fetchall() is empty and [0] raises IndexError.
LookupMissing ==
  /\ pc = "lookup"
  /\ LookupRows(Get(args_from_ui, "building_code", StrV(""))) = {}
  /\ ops' = Append(ops, "execute_lookup")
  /\ outcome' = "IndexError"
  /\ pc' = "raised"
  /\ UNCHANGED <<args_from_ui, functions, select, frm, where, args, description, header, rows>>

\* Lines 114-122: one fragment and its parameters per item.
Predicates ==
  /\ pc = "predicates"
  /\ where' = where \o LoopWhere(args_from_ui, 1)
  /\ args' = args \o LoopArgs(args_from_ui, 1)
  /\ pc' = "execute"
  /\ UNCHANGED <<args_from_ui, functions, select, frm, ops, outcome, description, header, rows>>

\* Lines 124-125: c.execute(query, args) raises.
ExecuteRaises ==
  /\ pc = "execute"
  /\ ExecuteError(select, frm, where, args, functions) # "none"
  /\ ops' = Append(ops, "execute_query")
  /\ outcome' = ExecuteError(select, frm, where, args, functions)
  /\ pc' = "raised"
  /\ UNCHANGED <<args_from_ui, functions, select, frm, where, args, description, header, rows>>

\* Lines 124-125: c.execute(query, args) yields the result set.
Execute ==
  /\ pc = "execute"
  /\ ExecuteError(select, frm, where, args, functions) = "none"
  /\ ops' = Append(ops, "execute_query")
  /\ \E full \in BOOLEAN : description' = Description(select, full)
  /\ rows' = ResultRows(select, frm, where, args)
  /\ pc' = "return"
  /\ UNCHANGED <<args_from_ui, functions, select, frm, where, args, outcome, header>>

\* Line 126: return (get_header(result_set), result_set.fetchall()).
Return ==
  /\ pc = "return"
  /\ header' = get_header(description)
  /\ outcome' = "returned"
  /\ ops' = Append(ops, "return")
  /\ pc' = "done"
  /\ UNCHANGED <<args_from_ui, functions, select, frm, where, args, description, rows>>

Next ==
  \/ CreateFunction
  \/ ReturnEmpty
  \/ ValidationFails
  \/ ValidationPasses
  \/ JoinDecision
  \/ LookupFound
  \/ LookupMissing
  \/ Predicates
  \/ ExecuteRaises
  \/ Execute
  \/ Return

Spec == Init /\ [][Next]_vars

\* ------------------------------------------- get_header on its own inputs
\* Column names of at most MaxNameLen segments, descriptions of at most
\* MaxCols columns.
Names == UNION {[1..n -> {"c", "."}] : n \in 1..MaxNameLen}
Descriptions == UNION {[1..n -> Names] : n \in 0..MaxCols}

InitHeader ==
  /\ description \in Descriptions
  /\ pc = "get_header"
  /\ args_from_ui = <<>>
  /\ functions = {}
  /\ select = <<>>
  /\ frm = <<>>
  /\ where = <<>>
  /\ args = <<>>
  /\ ops = <<>>
  /\ outcome = "running"
  /\ header = <<>>
  /\ rows = {}

GetHeader ==
  /\ pc = "get_header"
  /\ header' = get_header(description)
  /\ pc' = "header_done"
  /\ UNCHANGED <<args_from_ui, functions, select, frm, where, args, ops, outcome,
                 description, rows>>

NextHeader == GetHeader

SpecHeader == InitHeader /\ [][NextHeader]_vars

\* ================================================================ claims
Composed == pc \in {"execute", "return", "done"}
Query == select \o frm \o where
HasKey(k) == k \in Keys(args_from_ui)
Value(k) == Get(args_from_ui, k, IntV(0))
ConnectionOps == SelectSeq(ops, LAMBDA o : o \in {"create_function", "execute_lookup", "execute_query"})
Queries == SelectSeq(ops, LAMBDA o : o \in {"execute_lookup", "execute_query"})

\* The parameters the placeholders of the where clause are meant for, item
\* by item in fragment order.
RECURSIVE IntendedWhereArgs(_, _)
IntendedWhereArgs(d, j) ==
  IF j > Len(d) THEN <<>>
  ELSE (CASE d[j].k = "building_code" -> <<>>
          [] d[j].k \in {"day", "enrollment"} -> d[j].v.items
          [] d[j].k = "terms" -> d[j].v.items \o <<IntV(Len(d[j].v.items))>>
          [] OTHER -> <<d[j].v>>)
       \o IntendedWhereArgs(d, j + 1)

IntendedSelectArgs ==
  IF GeoColumn \in Range(select)
  THEN LET b == CHOOSE g \in gps : g.building_code = Value("building_code").s
       IN <<FloatV(b.lon), FloatV(b.lat)>>
  ELSE <<>>

\* C1: for every accepted criteria mapping (list-valued keys given as a
\* list or as a tuple), once the query is composed the parameter list has
\* as many entries as the query text has placeholders, and the i-th
\* parameter is the value meant for the i-th placeholder: the reference
\* building's coordinates first when the geodistance column is selected,
\* then per item in fragment order the elements of day and terms, the
\* match count after the terms, the two enrollment bounds, and each
\* single value.
C1_ParameterAlignment ==
  pc = "execute" =>
    /\ Len(args) = CountPlaceholders(Query)
    /\ args = IntendedSelectArgs \o IntendedWhereArgs(args_from_ui, 1)

\* The courses whose index entries cover every term of the list.
CoursesWithAllTerms(terms) ==
  {c \in courses :
     \A j \in DOMAIN terms : [word |-> terms[j].s, course_id |-> c.course_id] \in catalog_index}

\* C2: for a criteria mapping whose only key is terms (a list), a course is
\* in the result iff the word index has an entry for every term of the
\* list, so a list that repeats a term selects the same courses as the
\* list without the repetition.
C2_ConjunctiveTerms ==
  (pc = "done" /\ Keys(args_from_ui) = {"terms"} /\ Value("terms").t = "list") =>
    rows = {<<StrV(c.dept), IntV(c.course_num), StrV(c.title)>> :
              c \in CoursesWithAllTerms(Value("terms").items)}

SectionScoped ==
  {"enrollment", "time_start", "time_end", "day", "walking_time", "building_code"}

\* C3: the composed query joins Section and MeetingPattern iff the
\* criteria hold a section-scoped key, and joins Building (gps) iff
\* building_code is present.
C3_JoinsOnlyRequired ==
  Composed =>
    /\ ("JOIN sections" \in Range(frm)) = (Keys(args_from_ui) \cap SectionScoped # {})
    /\ ("JOIN meeting_patterns" \in Range(frm)) = (Keys(args_from_ui) \cap SectionScoped # {})
    /\ ("JOIN gps" \in Range(frm)) = HasKey("building_code")

\* C4 as stated: for the empty criteria mapping find_courses returns
\* ([], []) and no operation at all is performed on the connection.
C4_EmptyTouchesNothing ==
  (Len(args_from_ui) = 0 /\ pc = "done") =>
    /\ header = <<>> /\ rows = {} /\ outcome = "returned"
    /\ ConnectionOps = <<>>

\* C4 amended: for the empty criteria mapping find_courses returns
\* ([], []) without executing any query; the one operation on the
\* connection is the registration of time_between, and an empty mapping
\* takes no step other than the registration and the return.
C4_EmptyRunsNoQuery ==
  Len(args_from_ui) = 0 =>
    /\ pc \in {"create_function", "check_empty", "done"}
    /\ Queries = <<>>
    /\ pc = "done" =>
         /\ header = <<>> /\ rows = {} /\ outcome = "returned"
         /\ ConnectionOps = <<"create_function">>

C4_Witness == Len(args_from_ui) = 0 /\ pc = "done" /\ outcome = "returned"

IsStrings(v) == IsSeqV(v) /\ \A x \in Range(v.items) : x.t = "str"

\* The validator's conditions, as the criteria mapping violates them.
ViolatesValidator(d) ==
  \/ ~(Keys(d) \subseteq acceptable_keys)
  \/ ("building_code" \in Keys(d)) # ("walking_time" \in Keys(d))
  \/ \E j \in DOMAIN d :
       LET v == d[j].v
       IN CASE d[j].k \in {"building_code", "dept"} -> v.t # "str"
            [] d[j].k = "walking_time" -> v.t # "int"
            [] d[j].k = "day" -> ~IsStrings(v)
            [] d[j].k = "terms" -> ~(IsStrings(v) /\ v.items # <<>>)
            [] d[j].k = "time_start" -> ~(v.t = "int" /\ v.i >= 0)
            [] d[j].k = "time_end" -> ~(v.t = "int" /\ v.i < 2400)
            [] d[j].k = "enrollment" ->
                 ~(/\ IsSeqV(v) /\ Len(v.items) = 2
                   /\ \A x \in Range(v.items) : x.t = "int"
                   /\ v.items[1].i <= v.items[2].i)
            [] OTHER -> FALSE

\* C5: a non-empty criteria mapping that violates a validator condition
\* gets no further than the validation: the call is either still before
\* it or has ended with the validation error, and then neither the
\* building lookup nor the composed query has been built or executed.
C5_FailFast ==
  (Len(args_from_ui) # 0 /\ ViolatesValidator(args_from_ui)) =>
    /\ pc \in {"create_function", "check_empty", "raised"}
    /\ pc = "raised" => outcome = "AssertionError"
    /\ Queries = <<>>
    /\ select = <<>> /\ frm = <<>> /\ where = <<>> /\ args = <<>>

C5_Witness ==
  /\ pc = "raised" /\ outcome = "AssertionError"
  /\ Keys(args_from_ui) \subseteq acceptable_keys
  /\ HasKey("enrollment") /\ ViolatesValidator(args_from_ui)

\* C6: with a valid criteria mapping whose building_code has no row in
\* gps, the call ends in a lookup error that is neither a validation error
\* nor a plain index error, the composed query is never executed and no
\* (header, rows) pair is returned.
C6_DistinctLookupError ==
  (/\ pc \in {"raised", "done"}
   /\ assert_valid_input(args_from_ui)
   /\ HasKey("building_code")
   /\ LookupRows(Value("building_code")) = {}) =>
    /\ outcome \notin {"AssertionError", "IndexError", "returned"}
    /\ "execute_query" \notin Range(ops)
    /\ header = <<>> /\ rows = {}

\* Position of the last separator of a name, 0 if there is none.
LastSeparator(s) ==
  IF "." \in Range(s)
  THEN CHOOSE p \in DOMAIN s : s[p] = "." /\ \A q \in (p + 1)..Len(s) : s[q] # "."
  ELSE 0

\* C7: get_header returns, for every cursor column in order, the name with
\* everything up to and including the last separator removed, so no header
\* entry contains a separator and the header is as long as the column list.
C7_StripsToLastSeparator ==
  pc = "header_done" =>
    /\ Len(header) = Len(description)
    /\ \A j \in DOMAIN description :
         /\ header[j] = SubSeq(description[j], LastSeparator(description[j]) + 1,
                               Len(description[j]))
         /\ "." \notin Range(header[j])

\* Value of the column called name in a returned row.
Col(row, name) == row[CHOOSE j \in DOMAIN header : header[j] = <<name>>]

\* C8: every returned row satisfies the predicate of every supplied key:
\* time_start >= the given one, time_end <= the given one, day among the
\* given days, dept equal to the given one, enrollment within [lo, hi], and
\* walking_time (a header column) <= the given walking_time.
C8_RowsSatisfyCriteria ==
  (pc = "done" /\ Len(args_from_ui) # 0) =>
    \A k \in Keys(args_from_ui) \ {"terms", "building_code"} :
      /\ <<k>> \in Range(header)
      /\ \A row \in rows :
           LET x == Col(row, k)
               v == Value(k)
           IN CASE k = "time_start" -> x.t = "int" /\ x.i >= v.i
                [] k = "time_end" -> x.t = "int" /\ x.i <= v.i
                [] k = "day" -> \E j \in DOMAIN v.items : x = v.items[j]
                [] k = "dept" -> x = v
                [] k = "enrollment" ->
                     x.t = "int" /\ v.items[1].i <= x.i /\ x.i <= v.items[2].i
                [] k = "walking_time" -> x.t = "int" /\ x.i <= v.i

C8_Witness ==
  /\ pc = "done" /\ rows # {}
  /\ {"walking_time", "building_code", "enrollment"} \subseteq Keys(args_from_ui)

\* C9: in every composed query the walking_time fragment is in the where
\* clause only if the geodistance column is in the select list and the
\* Building join in the from clause; building_code adds no fragment (one
\* predicate per other key) and its value is not among the parameters.
C9_WalkingNeedsGeodistance ==
  Composed =>
    /\ "walking_time" \in Range(where) =>
         GeoColumn \in Range(select) /\ "JOIN gps" \in Range(frm)
    /\ Len(ParseWhere(where, 1)) = Cardinality(Keys(args_from_ui) \ {"building_code"})
    /\ \A p \in DOMAIN where : where[p] \notin {"sections.building_code", "gps.building_code"}
    /\ HasKey("building_code") => \A j \in DOMAIN args : args[j] # Value("building_code")

C9_Witness ==
  /\ pc = "execute" /\ "walking_time" \in Range(where) /\ HasKey("building_code")
  /\ Len(args_from_ui) > 2

\* C10: a call with a non-empty valid criteria mapping that returns a
\* result has taken the steps register, validate, (building lookup),
\* execute, return in this order: the composed query ran exactly once, the
\* lookup at most once and only with building_code present; and no query
\* runs before the 4-argument time_between is registered.
C10_CallOrder ==
  /\ Queries # <<>> => [name |-> "time_between", narg |-> 4] \in functions
  /\ (pc = "done" /\ Len(args_from_ui) # 0) =>
       ops = <<"create_function", "assert_valid_input">>
             \o (IF HasKey("building_code") THEN <<"execute_lookup">> ELSE <<>>)
             \o <<"execute_query", "return">>

C10_Witness ==
  pc = "done" /\ HasKey("building_code") /\ rows # {} /\ <<"walking_time">> \in Range(header)
====
